---- MODULE Spec2Model ----
(***************************************************************************)
(* Model of the wobbly crate: rc::Wobbly (src/src/rc.rs) and sync::Wobbly  *)
(* (src/src/sync.rs) over one reference-counted allocation.                *)
(*                                                                         *)
(* The allocation's control block is the pair (strong, weak) of std's      *)
(* Rc/Arc; weak counts the explicit weak units (Weak and Wobbly handles).  *)
(* A Wobbly handle h is a pair (weak unit, reference to the flag of group  *)
(* grp[h]); the flag should_decref of group g is flag[g].                  *)
(*                                                                         *)
(* variant = "rc":   one thread; drop is one uninterrupted call, nested    *)
(*                   drops of handles stored in the pointee included.      *)
(* variant = "sync": any number of threads; a drop is the steps            *)
(*                   compare_exchange, decrement_strong_count, release of  *)
(*                   the fields, and steps of different drops interleave.  *)
(***************************************************************************)
EXTENDS Integers, FiniteSets, Sequences, TLC

\* Bounds of the model.
MaxHandles == 3     \* Wobbly handles ever created (new + clone)
MaxGroups == 2      \* calls of Wobbly::new
MaxStrong == 2      \* ordinary Rc/Arc handles alive at once
MaxWeak == 1        \* ordinary Weak handles alive at once

Handles == 1..MaxHandles
Groups == 1..MaxGroups

VARIABLES
  variant,  \* "rc" or "sync": which module's Wobbly the program uses
  strong,   \* strong count of the allocation
  weak,     \* weak units of the allocation (one per live Weak / Wobbly)
  value,    \* "alive" or "dropped": the pointee
  flag,     \* flag[g]: should_decref of group g
  hs,       \* hs[h]: "absent"; "out": live, held by the program; "in": live, a
            \* field of the pointee; "won", "fields": being dropped; "dropped"
  grp,      \* grp[h]: the group whose flag handle h refers to (0: absent)
  decs,     \* decs[g]: calls of decrement_strong_count made by drops of group g
  ub,       \* a decrement_strong_count was called with strong count 0
  rcs,      \* live ordinary strong handles (Rc / Arc)
  weaks,    \* live ordinary Weak handles (obtained by downgrade)
  last      \* the operation that made the last step, and what it returned

vars == <<variant, strong, weak, value, flag, hs, grp, decs, ub, rcs, weaks, last>>

\* The part of the state a drop works on.
St == [strong |-> strong, weak |-> weak, value |-> value, flag |-> flag,
       hs |-> hs, decs |-> decs, ub |-> ub]

Set(s) ==
  /\ strong' = s.strong
  /\ weak' = s.weak
  /\ value' = s.value
  /\ flag' = s.flag
  /\ hs' = s.hs
  /\ decs' = s.decs
  /\ ub' = s.ub

\* A call: the method, the handle it was called on (0: not a Wobbly) and what
\* it returned: upgrade 1 (Some) or 0 (None); strong_count and weak_count the
\* count; drop and the compare_exchange 1 when the flag was found true.  For
\* new, h is the handle returned and ret its group; for clone, h is the clone
\* and ret the handle cloned.
Op(name, h, ret) == [op |-> name, h |-> h, ret |-> ret]

Min(S) == CHOOSE x \in S : \A y \in S : x <= y

FreeHandles == {h \in Handles : hs[h] = "absent"}
Created == {grp[h] : h \in Handles} \ {0}
FreeGroups == Groups \ Created
Members(g) == {h \in Handles : grp[h] = g}

\* Handles stored in the pointee that its destructor still has to drop.
InnerLive(s) == {h \in Handles : s.hs[h] = "in"}

\* The program can reach the pointee's fields: only through an ordinary strong
\* handle (a Weak or a Wobbly has to be upgraded first, which gives one).
Reachable == value = "alive" /\ rcs > 0

\* A handle the program can call a method on: not being dropped, and either
\* held by the program or a reachable field of the pointee.
Usable(h) == hs[h] = "out" \/ (hs[h] = "in" /\ Reachable)

Init ==
  /\ variant \in {"rc", "sync"}
  /\ strong = 1
  /\ weak = 0
  /\ value = "alive"
  /\ flag = [g \in Groups |-> FALSE]
  /\ hs = [h \in Handles |-> "absent"]
  /\ grp = [h \in Handles |-> 0]
  /\ decs = [g \in Groups |-> 0]
  /\ ub = FALSE
  /\ rcs = 1
  /\ weaks = 0
  /\ last = Op("init", 0, 0)

(***************************************************************************)
(* The underlying primitive (std::rc / std::sync), as the crate calls it.  *)
(***************************************************************************)

\* Weak::upgrade: Some (and one more strong unit) iff the strong count is not 0.
WeakUpgradeOk(s) == s.strong > 0

\* Weak::strong_count.
WeakStrongCount(s) == s.strong

\* Weak::weak_count: the number of Weak pointers, reported as 0 once no
\* strong pointer remains.
WeakWeakCount(s) == IF s.strong > 0 THEN s.weak ELSE 0

\* Weak::clone: one more weak unit.
WeakClone(s) == [s EXCEPT !.weak = @ + 1]

\* Weak::drop: one weak unit less.
WeakDrop(s) == [s EXCEPT !.weak = @ - 1]

(***************************************************************************)
(* rc::Wobbly: drop, with everything it calls.                             *)
(***************************************************************************)
RECURSIVE RcDecrementStrong(_), RcDropValue(_, _), RcDrop(_, _)

\* Mutant of CellReplaceFalse: the flag is read and not cleared (Cell::get).
CellReadOnly(s, g) == [was |-> s.flag[g], s |-> s]

\* Cell::replace(false) on the flag of group g: the value read, and the state.
CellReplaceFalse(s, g) == [was |-> s.flag[g], s |-> [s EXCEPT !.flag[g] = FALSE]]

\* Rc::decrement_strong_count (and Rc::drop): a count of 0 violates the
\* call's safety contract; otherwise one unit less, and the pointee is
\* destroyed when the count reaches 0.
RcDecrementStrong(s) ==
  IF s.strong = 0 THEN [s EXCEPT !.ub = TRUE]
  ELSE LET s1 == [s EXCEPT !.strong = @ - 1] IN
       IF s1.strong = 0
         THEN RcDropValue([s1 EXCEPT !.value = "dropped"], InnerLive(s1))
         ELSE s1

\* The pointee's destructor: drops the Wobbly handles stored in it, one
\* after the other, each by <Wobbly as Drop>::drop.
RcDropValue(s, inner) ==
  IF inner = {} THEN s
  ELSE LET h == Min(inner) IN RcDropValue(RcDrop(s, h), inner \ {h})

\* Mutant of RcDrop: the group's unit is released by the last member to be
\* dropped (as an Rc would), not by the first.
RcDropWhenLast(s, h) ==
  LET g == grp[h]
      others == \E x \in Members(g) \ {h} : s.hs[x] \in {"out", "in"}
      s2 == IF others
              THEN s
              ELSE RcDecrementStrong([s EXCEPT !.flag[g] = FALSE, !.decs[g] = @ + 1])
  IN  [WeakDrop(s2) EXCEPT !.hs[h] = "dropped"]

\* Mutant of RcDrop: the flag is cleared after the decrement instead of
\* before it.
RcDropDecrementFirst(s, h) ==
  LET g == grp[h]
      s1 == IF s.flag[g]
              THEN RcDecrementStrong([s EXCEPT !.decs[g] = @ + 1])
              ELSE s
      s2 == [s1 EXCEPT !.flag[g] = FALSE]
  IN  [WeakDrop(s2) EXCEPT !.hs[h] = "dropped"]

\* <rc::Wobbly as Drop>::drop on handle h, then the drop of its fields.
RcDrop(s, h) ==
  LET g == grp[h]
      r == CellReplaceFalse(s, g)
      s2 == IF r.was
              THEN RcDecrementStrong([r.s EXCEPT !.decs[g] = @ + 1])
              ELSE r.s
  IN  [WeakDrop(s2) EXCEPT !.hs[h] = "dropped"]

(***************************************************************************)
(* sync::Wobbly: the steps of drop.                                        *)
(***************************************************************************)

\* Mutant of CompareExchange: a store of false that always reports success
\* (AtomicBool::store in place of the compare-and-exchange).
StoreFalseAlwaysOk(s, g) == [ok |-> TRUE, s |-> [s EXCEPT !.flag[g] = FALSE]]

\* Mutant of CompareExchange: the arguments exchanged,
\* compare_exchange(false, true).
CompareExchangeSwapped(s, g) ==
  IF s.flag[g] = FALSE
    THEN [ok |-> TRUE, s |-> [s EXCEPT !.flag[g] = TRUE]]
    ELSE [ok |-> FALSE, s |-> s]

\* Mutant of CompareExchange: the flag is only read (AtomicBool::load) and
\* success reported when it was true.
AtomicLoadOnly(s, g) == [ok |-> s.flag[g], s |-> s]

\* AtomicBool::compare_exchange(true, false) on the flag of group g.
CompareExchange(s, g) ==
  IF s.flag[g] = TRUE
    THEN [ok |-> TRUE, s |-> [s EXCEPT !.flag[g] = FALSE]]
    ELSE [ok |-> FALSE, s |-> s]

\* Arc::decrement_strong_count (and Arc::drop): as for Rc; the handles stored
\* in the pointee are dropped by the steps that follow.
SyncDecrementStrong(s) ==
  IF s.strong = 0 THEN [s EXCEPT !.ub = TRUE]
  ELSE LET s1 == [s EXCEPT !.strong = @ - 1] IN
       IF s1.strong = 0 THEN [s1 EXCEPT !.value = "dropped"] ELSE s1

\* The drop of an ordinary strong handle, by variant.
StrongDrop(s) ==
  IF variant = "rc" THEN RcDecrementStrong(s) ELSE SyncDecrementStrong(s)

(***************************************************************************)
(* Operations of the program on ordinary handles.                          *)
(***************************************************************************)

\* Rc::clone / Arc::clone of an ordinary strong handle.
CloneStrong ==
  /\ ~ub /\ rcs > 0 /\ rcs < MaxStrong
  /\ rcs' = rcs + 1
  /\ strong' = strong + 1
  /\ last' = Op("clone_strong", 0, 0)
  /\ UNCHANGED <<variant, weak, value, flag, hs, grp, decs, ub, weaks>>

\* An ordinary strong handle goes out of scope.
DropStrong ==
  /\ ~ub /\ rcs > 0
  /\ rcs' = rcs - 1
  /\ Set(StrongDrop(St))
  /\ last' = Op("drop_strong", 0, 0)
  /\ UNCHANGED <<variant, grp, weaks>>

\* Weak::upgrade on a Weak obtained by Wobbly::downgrade.
UpgradeWeak ==
  /\ ~ub /\ weaks > 0
  /\ IF WeakUpgradeOk(St)
       THEN /\ rcs < MaxStrong
            /\ strong' = strong + 1
            /\ rcs' = rcs + 1
            /\ last' = Op("weak_upgrade", 0, 1)
       ELSE /\ UNCHANGED <<strong, rcs>>
            /\ last' = Op("weak_upgrade", 0, 0)
  /\ UNCHANGED <<variant, weak, value, flag, hs, grp, decs, ub, weaks>>

\* A Weak obtained by Wobbly::downgrade goes out of scope.
DropWeak ==
  /\ ~ub /\ weaks > 0
  /\ weaks' = weaks - 1
  /\ Set(WeakDrop(St))
  /\ last' = Op("drop_weak", 0, 0)
  /\ UNCHANGED <<variant, grp, rcs>>

\* The program moves handle h into the pointee (a field of the value).
Store(h) ==
  /\ ~ub /\ hs[h] = "out" /\ Reachable
  /\ hs' = [hs EXCEPT ![h] = "in"]
  /\ last' = Op("store", h, 0)
  /\ UNCHANGED <<variant, strong, weak, value, flag, grp, decs, ub, rcs, weaks>>

(***************************************************************************)
(* Wobbly's methods (the same text in rc.rs and sync.rs).                  *)
(***************************************************************************)

\* Mutant of New: mem::forget is missing, so the strong handle is dropped
\* when new returns.
NewDropsStrong ==
  /\ ~ub /\ rcs > 0 /\ FreeHandles # {} /\ FreeGroups # {}
  /\ LET h == Min(FreeHandles)
         g == Min(FreeGroups)
         s1 == StrongDrop(WeakClone(St))
     IN  /\ rcs' = rcs - 1
         /\ Set([s1 EXCEPT !.flag[g] = TRUE, !.hs[h] = "out"])
         /\ grp' = [grp EXCEPT ![h] = g]
         /\ last' = Op("new", h, g)
  /\ UNCHANGED <<variant, weaks>>

\* Mutant of New: the strong handle is cloned before it is forgotten, so its
\* unit is counted twice.
NewCountsTwice ==
  /\ ~ub /\ rcs > 0 /\ FreeHandles # {} /\ FreeGroups # {}
  /\ LET h == Min(FreeHandles)
         g == Min(FreeGroups)
         s1 == WeakClone([St EXCEPT !.strong = @ + 1])
     IN  /\ rcs' = rcs - 1
         /\ Set([s1 EXCEPT !.flag[g] = TRUE, !.hs[h] = "out"])
         /\ grp' = [grp EXCEPT ![h] = g]
         /\ last' = Op("new", h, g)
  /\ UNCHANGED <<variant, weaks>>

\* Mutant of New: the flag is one static shared by every call of new.
NewSharesFlag ==
  /\ ~ub /\ rcs > 0 /\ FreeHandles # {} /\ FreeGroups # {}
  /\ LET h == Min(FreeHandles)
         g == IF Created # {} THEN Min(Created) ELSE Min(FreeGroups)
         s1 == WeakClone(St)
     IN  /\ rcs' = rcs - 1
         /\ Set([s1 EXCEPT !.flag[g] = TRUE, !.hs[h] = "out"])
         /\ grp' = [grp EXCEPT ![h] = g]
         /\ last' = Op("new", h, g)
  /\ UNCHANGED <<variant, weaks>>

\* Wobbly::new(strong): downgrade, forget the strong handle, a fresh flag.
New ==
  /\ ~ub /\ rcs > 0 /\ FreeHandles # {} /\ FreeGroups # {}
  /\ LET h == Min(FreeHandles)
         g == Min(FreeGroups)
         s1 == WeakClone(St)                      \* Rc::downgrade(&strong)
     IN  /\ rcs' = rcs - 1                        \* mem::forget(strong)
         /\ Set([s1 EXCEPT !.flag[g] = TRUE, !.hs[h] = "out"])
         /\ grp' = [grp EXCEPT ![h] = g]
         /\ last' = Op("new", h, g)
  /\ UNCHANGED <<variant, weaks>>

\* Wobbly::downgrade(&self): self.weak.clone().
Downgrade(h) ==
  /\ ~ub /\ Usable(h) /\ weaks < MaxWeak
  /\ weaks' = weaks + 1
  /\ Set(WeakClone(St))
  /\ last' = Op("downgrade", h, 0)
  /\ UNCHANGED <<variant, grp, rcs>>

\* Mutant of Upgrade: None as soon as the handle's own group has released
\* its unit.
UpgradeChecksFlag(h) ==
  /\ ~ub /\ Usable(h)
  /\ IF WeakUpgradeOk(St) /\ flag[grp[h]]
       THEN /\ rcs < MaxStrong
            /\ strong' = strong + 1
            /\ rcs' = rcs + 1
            /\ last' = Op("upgrade", h, 1)
       ELSE /\ UNCHANGED <<strong, rcs>>
            /\ last' = Op("upgrade", h, 0)
  /\ UNCHANGED <<variant, weak, value, flag, hs, grp, decs, ub, weaks>>

\* Mutant of Upgrade: the strong handle returned takes over a unit that is
\* already counted instead of adding one.
UpgradeTakesUnit(h) ==
  /\ ~ub /\ Usable(h)
  /\ IF WeakUpgradeOk(St)
       THEN /\ rcs < MaxStrong
            /\ strong' = strong
            /\ rcs' = rcs + 1
            /\ last' = Op("upgrade", h, 1)
       ELSE /\ UNCHANGED <<strong, rcs>>
            /\ last' = Op("upgrade", h, 0)
  /\ UNCHANGED <<variant, weak, value, flag, hs, grp, decs, ub, weaks>>

\* Mutant of Upgrade: the strong count is incremented through the pointer
\* without looking at it, so an upgrade always returns a strong handle.
UpgradeResurrects(h) ==
  /\ ~ub /\ Usable(h)
  /\ rcs < MaxStrong
  /\ strong' = strong + 1
  /\ rcs' = rcs + 1
  /\ last' = Op("upgrade", h, 1)
  /\ UNCHANGED <<variant, weak, value, flag, hs, grp, decs, ub, weaks>>

\* Wobbly::upgrade(&self): self.weak.upgrade().
Upgrade(h) ==
  /\ ~ub /\ Usable(h)
  /\ IF WeakUpgradeOk(St)
       THEN /\ rcs < MaxStrong
            /\ strong' = strong + 1
            /\ rcs' = rcs + 1
            /\ last' = Op("upgrade", h, 1)
       ELSE /\ UNCHANGED <<strong, rcs>>
            /\ last' = Op("upgrade", h, 0)
  /\ UNCHANGED <<variant, weak, value, flag, hs, grp, decs, ub, weaks>>

\* Wobbly::weak_count(&self): self.weak.weak_count().
WeakCount(h) ==
  /\ ~ub /\ Usable(h)
  /\ last' = Op("weak_count", h, WeakWeakCount(St))
  /\ UNCHANGED <<variant, strong, weak, value, flag, hs, grp, decs, ub, rcs, weaks>>

\* Mutant of StrongCount: it reads the weak count.
StrongCountReadsWeak(h) ==
  /\ ~ub /\ Usable(h)
  /\ last' = Op("strong_count", h, WeakWeakCount(St))
  /\ UNCHANGED <<variant, strong, weak, value, flag, hs, grp, decs, ub, rcs, weaks>>

\* Wobbly::strong_count(&self): self.weak.strong_count().
StrongCount(h) ==
  /\ ~ub /\ Usable(h)
  /\ last' = Op("strong_count", h, WeakStrongCount(St))
  /\ UNCHANGED <<variant, strong, weak, value, flag, hs, grp, decs, ub, rcs, weaks>>

\* Mutant of Clone: the clone gets a flag of its own, holding a copy of the
\* original flag's value.
CloneCopiesFlag(h) ==
  /\ ~ub /\ Usable(h) /\ FreeHandles # {} /\ FreeGroups # {}
  /\ LET c == Min(FreeHandles)
         g == Min(FreeGroups)
     IN  /\ Set([WeakClone(St) EXCEPT !.hs[c] = "out", !.flag[g] = flag[grp[h]]])
         /\ grp' = [grp EXCEPT ![c] = g]
         /\ last' = Op("clone", c, h)
  /\ UNCHANGED <<variant, rcs, weaks>>

\* Mutant of Clone: the clone gets a new flag of its own, set to true, as new
\* does, although no strong unit is leaked for it.
CloneFreshFlag(h) ==
  /\ ~ub /\ Usable(h) /\ FreeHandles # {} /\ FreeGroups # {}
  /\ LET c == Min(FreeHandles)
         g == Min(FreeGroups)
     IN  /\ Set([WeakClone(St) EXCEPT !.hs[c] = "out", !.flag[g] = TRUE])
         /\ grp' = [grp EXCEPT ![c] = g]
         /\ last' = Op("clone", c, h)
  /\ UNCHANGED <<variant, rcs, weaks>>

\* Mutant of Clone: the clone arms the shared flag again.
CloneRearms(h) ==
  /\ ~ub /\ Usable(h) /\ FreeHandles # {}
  /\ LET c == Min(FreeHandles) IN
         /\ Set([WeakClone(St) EXCEPT !.hs[c] = "out", !.flag[grp[h]] = TRUE])
         /\ grp' = [grp EXCEPT ![c] = grp[h]]
         /\ last' = Op("clone", c, h)
  /\ UNCHANGED <<variant, rcs, weaks>>

\* <Wobbly as Clone>::clone: a clone of the weak handle and of the
\* reference to the flag.
Clone(h) ==
  /\ ~ub /\ Usable(h) /\ FreeHandles # {}
  /\ LET c == Min(FreeHandles) IN
         /\ Set([WeakClone(St) EXCEPT !.hs[c] = "out"])
         /\ grp' = [grp EXCEPT ![c] = grp[h]]
         /\ last' = Op("clone", c, h)
  /\ UNCHANGED <<variant, rcs, weaks>>

\* rc: a handle held by the program is dropped; the whole call is one step.
DropRc(h) ==
  /\ ~ub /\ variant = "rc" /\ hs[h] = "out"
  /\ Set(RcDrop(St, h))
  /\ last' = Op("drop", h, IF flag[grp[h]] THEN 1 ELSE 0)
  /\ UNCHANGED <<variant, grp, rcs, weaks>>

\* Mutant of DropSyncCas: a failed compare_exchange is tried again (a
\* compare_exchange loop) instead of being taken as the answer.
DropSyncCasRetries(h) ==
  /\ ~ub /\ variant = "sync"
  /\ hs[h] = "out" \/ (hs[h] = "in" /\ value = "dropped")
  /\ LET r == CompareExchange(St, grp[h]) IN
         /\ Set([r.s EXCEPT !.hs[h] = IF r.ok THEN "won" ELSE hs[h]])
         /\ last' = Op("drop_cas", h, IF r.ok THEN 1 ELSE 0)
  /\ UNCHANGED <<variant, grp, rcs, weaks>>

\* sync: a thread starts to drop handle h (held by the program, or a field
\* of the pointee being destroyed): the compare_exchange.
DropSyncCas(h) ==
  /\ ~ub /\ variant = "sync"
  /\ hs[h] = "out" \/ (hs[h] = "in" /\ value = "dropped")
  /\ LET r == CompareExchange(St, grp[h]) IN
         /\ Set([r.s EXCEPT !.hs[h] = IF r.ok THEN "won" ELSE "fields"])
         /\ last' = Op("drop_cas", h, IF r.ok THEN 1 ELSE 0)
  /\ UNCHANGED <<variant, grp, rcs, weaks>>

\* Mutant of DropSyncDec: the thread whose compare_exchange succeeded returns
\* without the decrement.
DropSyncDecSkipped(h) ==
  /\ ~ub /\ variant = "sync" /\ hs[h] = "won"
  /\ Set([St EXCEPT !.hs[h] = "fields"])
  /\ last' = Op("drop_dec", h, 0)
  /\ UNCHANGED <<variant, grp, rcs, weaks>>

\* sync: the thread whose compare_exchange succeeded calls
\* Arc::decrement_strong_count.
DropSyncDec(h) ==
  /\ ~ub /\ variant = "sync" /\ hs[h] = "won"
  /\ LET s1 == SyncDecrementStrong([St EXCEPT !.decs[grp[h]] = @ + 1]) IN
         Set([s1 EXCEPT !.hs[h] = "fields"])
  /\ last' = Op("drop_dec", h, 0)
  /\ UNCHANGED <<variant, grp, rcs, weaks>>

\* sync: drop() has returned; the handle's fields are dropped (its Weak).
DropSyncFields(h) ==
  /\ ~ub /\ variant = "sync" /\ hs[h] = "fields"
  /\ Set([WeakDrop(St) EXCEPT !.hs[h] = "dropped"])
  /\ last' = Op("drop_fields", h, 0)
  /\ UNCHANGED <<variant, grp, rcs, weaks>>

Next ==
  \/ CloneStrong
  \/ DropStrong
  \/ UpgradeWeak
  \/ DropWeak
  \/ New
  \/ \E h \in Handles : Store(h)
  \/ \E h \in Handles : Downgrade(h)
  \/ \E h \in Handles : Upgrade(h)
  \/ \E h \in Handles : WeakCount(h)
  \/ \E h \in Handles : StrongCount(h)
  \/ \E h \in Handles : Clone(h)
  \/ \E h \in Handles : DropRc(h)
  \/ \E h \in Handles : DropSyncCas(h)
  \/ \E h \in Handles : DropSyncDec(h)
  \/ \E h \in Handles : DropSyncFields(h)

Spec == Init /\ [][Next]_vars

\* Fair scheduling of the threads: a thread that is inside drop (after its
\* compare_exchange) keeps running, as does the destructor of the pointee
\* over the handles stored in it.  Nothing is assumed about when the program
\* calls an operation.
Fairness ==
  \A h \in Handles :
    /\ WF_vars(DropSyncDec(h))
    /\ WF_vars(DropSyncFields(h))
    /\ WF_vars(hs[h] = "in" /\ DropSyncCas(h))

FairSpec == Spec /\ Fairness

(***************************************************************************)
(* One thread only: sync::Wobbly run sequentially.  A drop then runs from  *)
(* its compare_exchange to the drop of its fields without any other step   *)
(* in between, and the destructor of the pointee runs inside the decrement *)
(* that brings the strong count to 0, dropping the handles stored in it.   *)
(***************************************************************************)
RECURSIVE SyncDecrementStrongSeq(_), SyncDropValueSeq(_, _), SyncDropSeq(_, _)

\* Arc::decrement_strong_count (and Arc::drop) with the destructor inline.
SyncDecrementStrongSeq(s) ==
  LET s1 == SyncDecrementStrong(s) IN
    IF ~s1.ub /\ s1.strong = 0
      THEN SyncDropValueSeq(s1, InnerLive(s1))
      ELSE s1

\* The pointee's destructor on one thread: each stored handle is dropped by
\* <sync::Wobbly as Drop>::drop.
SyncDropValueSeq(s, inner) ==
  IF inner = {} THEN s
  ELSE LET h == Min(inner) IN SyncDropValueSeq(SyncDropSeq(s, h), inner \ {h})

\* <sync::Wobbly as Drop>::drop on handle h, then the drop of its fields.
SyncDropSeq(s, h) ==
  LET g == grp[h]
      r == CompareExchange(s, g)
      s2 == IF r.ok
              THEN SyncDecrementStrongSeq([r.s EXCEPT !.decs[g] = @ + 1])
              ELSE r.s
  IN  [WeakDrop(s2) EXCEPT !.hs[h] = "dropped"]

\* An ordinary strong handle goes out of scope (one thread).
SeqDropStrong ==
  /\ ~ub /\ rcs > 0
  /\ rcs' = rcs - 1
  /\ Set(IF variant = "rc" THEN RcDecrementStrong(St) ELSE SyncDecrementStrongSeq(St))
  /\ last' = Op("drop_strong", 0, 0)
  /\ UNCHANGED <<variant, grp, weaks>>

\* A handle held by the program is dropped (one thread): the whole call.
SeqDrop(h) ==
  /\ ~ub /\ hs[h] = "out"
  /\ Set(IF variant = "rc" THEN RcDrop(St, h) ELSE SyncDropSeq(St, h))
  /\ LET found == IF variant = "rc"
                    THEN CellReplaceFalse(St, grp[h]).was
                    ELSE CompareExchange(St, grp[h]).ok
     IN  last' = Op("drop", h, IF found THEN 1 ELSE 0)
  /\ UNCHANGED <<variant, grp, rcs, weaks>>

SeqNext ==
  \/ CloneStrong
  \/ SeqDropStrong
  \/ UpgradeWeak
  \/ DropWeak
  \/ New
  \/ \E h \in Handles : Store(h)
  \/ \E h \in Handles : Downgrade(h)
  \/ \E h \in Handles : Upgrade(h)
  \/ \E h \in Handles : WeakCount(h)
  \/ \E h \in Handles : StrongCount(h)
  \/ \E h \in Handles : Clone(h)
  \/ \E h \in Handles : SeqDrop(h)

\* The histories of one thread, of either variant.
SeqSpec == Init /\ [][SeqNext]_vars

(***************************************************************************)
(* Vocabulary of the properties.                                           *)
(***************************************************************************)
RECURSIVE SumDecs(_)
SumDecs(S) == IF S = {} THEN 0 ELSE LET g == Min(S) IN decs[g] + SumDecs(S \ {g})

\* drop() has been entered for handle h (sync: at least the compare_exchange).
DropStarted(h) == hs[h] \in {"won", "fields", "dropped"}
\* drop() has returned for handle h (its decrement, if any, is made).
DropReturned(h) == hs[h] \in {"fields", "dropped"}
\* Handle h is gone, its fields included.
Dropped(h) == hs[h] = "dropped"
Live(h) == hs[h] \in {"out", "in"}
\* No member of group g has begun to be dropped.
Untouched(g) == \A h \in Members(g) : Live(h)
\* A compare_exchange has succeeded and its decrement is not made yet.
Pending(g) == {h \in Members(g) : hs[h] = "won"}
NoPending == \A h \in Handles : hs[h] # "won"
AllDropped(g) == \A h \in Members(g) : Dropped(h)

(***************************************************************************)
(* C1. rc::Wobbly: whatever the order in which the members of a group are  *)
(* dropped, the drops of the group make exactly one call of                *)
(* decrement_strong_count in total (none before the first drop, one from   *)
(* the first drop on, never a second), no call underflows, and the strong  *)
(* count is the ordinary handles plus one unit per group, minus one per    *)
(* group whose unit was released: a change of exactly -1 per group.        *)
(***************************************************************************)
C1_RcExactlyOneDecrement ==
  variant = "rc" =>
    /\ ~ub
    /\ \A g \in Created :
         decs[g] = IF \E h \in Members(g) : Dropped(h) THEN 1 ELSE 0
    /\ strong = rcs + Cardinality(Created) - SumDecs(Created)

\* A group of three, all dropped, the handle made by new dropped last.
C1_Witness ==
  /\ variant = "rc"
  /\ \E g \in Created :
       /\ Cardinality(Members(g)) = 3
       /\ AllDropped(g)
       /\ decs[g] = 1
  /\ last = Op("drop", 1, 0)

(***************************************************************************)
(* C2. sync::Wobbly: in every interleaving of the drops of a group's       *)
(* members, exactly one compare_exchange(true -> false) succeeds (none     *)
(* before the first attempt), only the drop that won it calls              *)
(* decrement_strong_count, and it calls it once: the calls made plus the   *)
(* winners that have still to make theirs are 1 from the first attempt on, *)
(* and 1 call has been made once every member is dropped.                  *)
(***************************************************************************)
C2_SyncExactlyOneWinner ==
  variant = "sync" =>
    /\ ~ub
    /\ \A g \in Created :
         /\ decs[g] + Cardinality(Pending(g))
              = IF \E h \in Members(g) : DropStarted(h) THEN 1 ELSE 0
         /\ flag[g] = Untouched(g)
         /\ AllDropped(g) => decs[g] = 1
    /\ strong = rcs + Cardinality(Created) - SumDecs(Created)

\* A race: one member has won the compare_exchange and has not decremented
\* yet, while another member's compare_exchange has already failed.
C2_Witness ==
  /\ variant = "sync"
  /\ \E g \in Created : \E h1, h2 \in Members(g) :
       /\ hs[h1] = "won"
       /\ hs[h2] = "fields"
       /\ decs[g] = 0
  /\ last.op = "drop_cas" /\ last.ret = 0

\* The step is the drop of handle h as the first of its group to be dropped:
\* rc, the whole drop; sync, the decrement made by the winner.
FirstDropStep(h) ==
  \/ variant = "rc" /\ last'.op = "drop" /\ last'.h = h /\ Untouched(grp[h])
  \/ variant = "sync" /\ last'.op = "drop_dec" /\ last'.h = h

\* The step belongs to a drop of handle h that began after the drop of
\* another member of its group had returned.
LaterDropStep(h) ==
  /\ last'.op \in {"drop", "drop_cas", "drop_fields"}
  /\ last'.h = h
  /\ hs[h] # "won"
  /\ \E x \in Members(grp[h]) \ {h} : DropReturned(x)

(***************************************************************************)
(* C3. The group's unit is released when its FIRST member is dropped, with *)
(* other members still alive: that drop clears the flag and lowers the     *)
(* strong count by exactly 1, to 0 and with the pointee destroyed when the *)
(* count was 1; from then on (sync: once the winner's decrement is made)    *)
(* the flag is false, and once no ordinary strong handle and no unreleased *)
(* group is left the count is 0 and the pointee dropped; upgrade at count  *)
(* 0 returns None, also on a member that is still alive; a later drop of   *)
(* another member leaves the strong count unchanged and makes no           *)
(* decrement.                                                              *)
(***************************************************************************)
C3_FirstDropReleases ==
  /\ [](\A g \in Created :
          ((\E h \in Members(g) : DropReturned(h)) /\ Pending(g) = {})
            => ~flag[g] /\ decs[g] = 1)
  /\ []((/\ rcs = 0
         /\ NoPending
         /\ \A g \in Created : \E h \in Members(g) : DropReturned(h))
          => strong = 0 /\ value = "dropped")
  /\ [][\A h \in Handles :
          /\ FirstDropStep(h) =>
               /\ strong' = strong - 1
               /\ ~flag'[grp[h]]
               /\ decs'[grp[h]] = 1
               /\ strong = 1 => strong' = 0 /\ value' = "dropped"
          /\ LaterDropStep(h) =>
               /\ strong' = strong
               /\ decs' = decs
               /\ last'.ret = 0
          /\ (last'.op = "upgrade" /\ last'.h = h /\ strong = 0) =>
               last'.ret = 0 /\ strong' = 0]_vars

\* A = 1 is dropped, its clone B is alive, no other strong handle: the count
\* is 0, the pointee is dropped and B.upgrade() has just returned None.
C3_Witness ==
  \E a, b \in Handles :
    /\ a # b /\ grp[a] = grp[b] /\ grp[a] # 0
    /\ Dropped(a)
    /\ hs[b] = "out"
    /\ rcs = 0 /\ strong = 0 /\ value = "dropped"
    /\ last = Op("upgrade", b, 0)

(***************************************************************************)
(* C4. Keep-alive: while no member of a group has begun to be dropped, the *)
(* group's flag is true, the strong count is at least 1, the pointee is    *)
(* alive and an upgrade succeeds (an upgrade just made on a member of the  *)
(* group returned Some), whether or not an ordinary strong handle exists   *)
(* and whatever happened to other groups.                                  *)
(***************************************************************************)
C4_KeepAlive ==
  \A g \in Created :
    Untouched(g) =>
      /\ flag[g]
      /\ strong >= 1
      /\ value = "alive"
      /\ WeakUpgradeOk(St)
      /\ (last.op = "upgrade" /\ last.h \in Members(g)) => last.ret = 1

\* No ordinary strong handle, another group wholly dropped, and the untouched
\* group alone keeps the pointee alive.
C4_Witness ==
  \E g1, g2 \in Created :
    /\ g1 # g2
    /\ Untouched(g1)
    /\ AllDropped(g2)
    /\ rcs = 0 /\ strong = 1 /\ value = "alive"

(***************************************************************************)
(* C5. upgrade on a Wobbly handle returns Some exactly when the strong     *)
(* count is greater than 0 at the call, whatever the flag of the handle's  *)
(* group; on Some the strong count (and the ordinary strong handles) rise  *)
(* by 1, on None nothing changes; nothing else changes and no other        *)
(* failure occurs.                                                         *)
(***************************************************************************)
C5_UpgradeIffStrongPositive ==
  [][last'.op = "upgrade" =>
       /\ last'.ret \in {0, 1}
       /\ (last'.ret = 1) <=> (strong > 0)
       /\ last'.ret = 1 => strong' = strong + 1 /\ rcs' = rcs + 1
       /\ last'.ret = 0 => strong' = strong /\ rcs' = rcs
       /\ ~ub'
       /\ UNCHANGED <<variant, weak, value, flag, hs, grp, decs, weaks>>]_vars

\* upgrade has succeeded on a handle whose own group released its unit.
C5_Witness ==
  /\ last.op = "upgrade" /\ last.ret = 1
  /\ Live(last.h)
  /\ ~flag[grp[last.h]]
  /\ decs[grp[last.h]] = 1

(***************************************************************************)
(* C6. Groups made by separate calls of new on the same allocation are     *)
(* independent: new always allocates a fresh flag and leaves the other     *)
(* flags alone; a release by one group lowers the strong count by 1 and    *)
(* changes no other group's flag or release count; while another group is  *)
(* untouched its flag is true and the pointee alive; and every group       *)
(* releases at most once, exactly once when all its members are dropped.   *)
(***************************************************************************)
C6_GroupsIndependent ==
  /\ [](\A g \in Created :
          /\ Untouched(g) => flag[g] /\ strong >= 1 /\ value = "alive"
          /\ decs[g] <= 1
          /\ AllDropped(g) => decs[g] = 1)
  /\ [][/\ last'.op = "new" =>
             /\ last'.ret \notin Created
             /\ grp'[last'.h] = last'.ret
             /\ flag'[last'.ret]
             /\ \A g \in Created : flag'[g] = flag[g]
        /\ \A g \in Created :
             decs'[g] # decs[g] =>
               /\ strong' = strong - 1
               /\ \A g2 \in Created \ {g} :
                    flag'[g2] = flag[g2] /\ decs'[g2] = decs[g2]]_vars

\* Two groups on the allocation; each has released its own unit, once.
C6_Witness ==
  \E g1, g2 \in Created :
    /\ g1 # g2
    /\ decs[g1] = 1 /\ decs[g2] = 1
    /\ AllDropped(g1) /\ AllDropped(g2)
    /\ strong = 0 /\ rcs = 0

\* Every handle ever made is gone, fields included.
EveryHandleDropped == \A h \in Handles : hs[h] \in {"absent", "dropped"}

(***************************************************************************)
(* C7. Once every member of every group is dropped and no ordinary strong  *)
(* handle exists, the strong count is 0 and the pointee is dropped, and    *)
(* upgrade on a Weak taken earlier by Wobbly::downgrade returns None.  The *)
(* Weak is no member of a group: downgrade adds no member and changes no   *)
(* flag, no release count and no strong count, and neither does the drop   *)
(* of the Weak.                                                            *)
(***************************************************************************)
C7_AllDroppedThenGone ==
  /\ []((Created # {} /\ EveryHandleDropped /\ rcs = 0)
          => strong = 0 /\ value = "dropped")
  /\ [][/\ (last'.op = "weak_upgrade" /\ Created # {} /\ EveryHandleDropped /\ rcs = 0)
             => last'.ret = 0 /\ strong' = 0 /\ rcs' = 0
        /\ last'.op \in {"downgrade", "drop_weak"}
             => UNCHANGED <<strong, flag, decs, hs, grp, value, rcs>>
        /\ last'.op = "downgrade" => weak' = weak + 1 /\ weaks' = weaks + 1
        /\ last'.op = "drop_weak" => weak' = weak - 1 /\ weaks' = weaks - 1]_vars

\* Both members of a group are dropped, no strong handle is left, and the
\* Weak taken by downgrade has just failed to upgrade.
C7_Witness ==
  /\ \E g \in Created : Cardinality(Members(g)) >= 2
  /\ EveryHandleDropped
  /\ rcs = 0 /\ weaks = 1
  /\ strong = 0 /\ value = "dropped"
  /\ last = Op("weak_upgrade", 0, 0)

(***************************************************************************)
(* C8. Wobbly::new(strong) consumes one ordinary strong handle and leaves  *)
(* the strong count exactly as it was; the handle it returns is new, is    *)
(* the sole member of a new group, and the group's flag is true; the weak  *)
(* count rises by 1 and nothing else changes.                              *)
(***************************************************************************)
C8_NewKeepsStrongCount ==
  [][last'.op = "new" =>
       LET h == last'.h
           g == last'.ret
       IN  /\ strong' = strong
           /\ rcs' = rcs - 1
           /\ hs[h] = "absent" /\ hs'[h] = "out"
           /\ g \notin Created
           /\ {x \in Handles : grp'[x] = g} = {h}
           /\ flag'[g] = TRUE
           /\ weak' = weak + 1
           /\ \A x \in Created : flag'[x] = flag[x]
           /\ UNCHANGED <<value, decs, ub, weaks>>]_vars

\* A second group has just been made on the allocation while the first still
\* holds its unit: both units are counted, and no ordinary handle is left.
C8_Witness ==
  /\ last.op = "new" /\ last.ret = 2
  /\ Members(2) = {last.h}
  /\ flag[1] /\ flag[2]
  /\ strong = 2 /\ rcs = 0

\* The groups of an allocation whose unit is still held, by the handles.
UntouchedGroups == {g \in Created : Untouched(g)}

(***************************************************************************)
(* C9. Strong-count accounting: whenever no drop is between its successful *)
(* compare_exchange and its decrement (always, in rc), the strong count    *)
(* equals the live ordinary strong handles plus the groups none of whose   *)
(* members has begun to be dropped; strong_count returns that number and   *)
(* changes nothing.                                                        *)
(***************************************************************************)
C9_StrongCountAccounting ==
  /\ [](NoPending => strong = rcs + Cardinality(UntouchedGroups))
  /\ [](variant = "rc" => NoPending)
  /\ [][last'.op = "strong_count" =>
          /\ last'.ret = strong
          /\ NoPending => last'.ret = rcs + Cardinality(UntouchedGroups)
          /\ UNCHANGED <<variant, strong, weak, value, flag, hs, grp, decs, ub, rcs, weaks>>]_vars

\* strong_count has returned 2: one ordinary handle and one untouched group,
\* beside a group that has released its unit.
C9_Witness ==
  /\ last.op = "strong_count" /\ last.ret = 2
  /\ rcs = 1
  /\ Cardinality(UntouchedGroups) = 1
  /\ Cardinality(Created) = 2

(***************************************************************************)
(* C10. clone returns a new handle that refers to the flag of the handle   *)
(* cloned (the same group: no flag is allocated or changed); it adds one   *)
(* weak unit and leaves the strong count, the ordinary handles, the flags' *)
(* values and the release counts unchanged.                                *)
(***************************************************************************)
C10_CloneSharesFlag ==
  [][last'.op = "clone" =>
       LET c == last'.h
           h == last'.ret
       IN  /\ hs[c] = "absent" /\ hs'[c] = "out"
           /\ grp'[c] = grp[h] /\ grp[h] \in Created
           /\ {grp'[x] : x \in Handles} \ {0} = Created
           /\ weak' = weak + 1
           /\ strong' = strong
           /\ flag' = flag
           /\ UNCHANGED <<value, decs, ub, rcs, weaks>>
           /\ \A x \in Handles \ {c} : hs'[x] = hs[x] /\ grp'[x] = grp[x]]_vars

\* A clone has just been made of a member of a group that has released its
\* unit, the pointee being kept alive by an ordinary strong handle: the clone
\* shares the cleared flag and no unit came back.
C10_Witness ==
  /\ last.op = "clone"
  /\ grp[last.h] = grp[last.ret]
  /\ ~flag[grp[last.h]] /\ decs[grp[last.h]] = 1
  /\ strong = 1 /\ rcs = 1 /\ weak = 2

(***************************************************************************)
(* C11. Cycle leak.  While every member of a group is a field of the       *)
(* pointee and no ordinary strong handle exists, the group's flag is true, *)
(* no decrement has been made for it, the strong count is at least 1 and   *)
(* the pointee is alive; no step taken from such a state drops or moves a  *)
(* member, clears the flag or brings the strong count to 0, and the state  *)
(* lasts until a strong handle is obtained again (by upgrading a Weak or a *)
(* handle held outside); when nothing is held outside, it lasts for ever.  *)
(***************************************************************************)
Inside(g) == g \in Created /\ \A h \in Members(g) : hs[h] = "in"
Leaked(g) == Inside(g) /\ rcs = 0
\* Nothing outside the pointee can be upgraded to a strong handle.
Sealed == rcs = 0 /\ weaks = 0 /\ \A h \in Handles : hs[h] # "out"

InnerMembers(g) == {h \in Members(g) : hs[h] = "in"}
\* Group g holds the last strong unit and has members stored in the pointee.
CycleOf(g) == flag[g] /\ strong = 1 /\ InnerMembers(g) # {}

C12_CycleBreaking ==
  /\ [](~ub /\ \A g \in Groups : decs[g] <= 1)
  /\ [][
          /\ (last'.op = "drop" /\ CycleOf(grp[last'.h])) =>
             LET g == grp[last'.h] IN
               /\ last'.ret = 1
               /\ ~flag'[g] /\ decs'[g] = 1 /\ decs[g] = 0
               /\ strong' = 0 /\ value' = "dropped" /\ ~ub'
               /\ \A m \in Handles : hs[m] = "in" => hs'[m] = "dropped"
               /\ \A k \in Groups \ {g} : decs'[k] = decs[k]
               /\ weak' = weak - 1 - Cardinality({m \in Handles : hs[m] = "in"})
          /\ (last'.op = "drop_cas" /\ hs[last'.h] = "out" /\ CycleOf(grp[last'.h])) =>
               /\ last'.ret = 1 /\ hs'[last'.h] = "won"
               /\ ~flag'[grp[last'.h]]
               /\ strong' = strong /\ decs' = decs /\ value' = "alive"
          /\ (last'.op = "drop_dec" /\ strong = 1) =>
               /\ ~flag[grp[last'.h]]
               /\ strong' = 0 /\ value' = "dropped" /\ ~ub'
               /\ decs'[grp[last'.h]] = 1
               /\ \A m \in Handles : hs[m] = "in" => hs'[m] = "in"
          /\ (last'.op = "drop_cas" /\ hs[last'.h] = "in") =>
               /\ value = "dropped" /\ strong = 0
               /\ last'.ret = 0 /\ hs'[last'.h] = "fields"
               /\ UNCHANGED <<strong, weak, value, flag, decs, ub>>
       ]_vars

\* rc: the drop of the outside clone has just released the unit (it found
\* the flag true), and a member of its group that was stored in the pointee
\* has been dropped by the same call; one decrement, no underflow.
C12_Witness ==
  /\ last.op = "drop" /\ last.ret = 1
  /\ \E m \in Members(grp[last.h]) \ {last.h} : hs[m] = "dropped"
  /\ decs[grp[last.h]] = 1
  /\ strong = 0 /\ value = "dropped" /\ ~ub

(***************************************************************************)
(* C13. Weak-count accounting.  Every live Wobbly handle counts as one     *)
(* weak pointer: weak_count called on a live Wobbly handle returns at      *)
(* least 1, and returns the number of Wobbly handles of all groups whose   *)
(* weak handle is not yet dropped plus the number of live ordinary weak    *)
(* handles.                                                                *)
(***************************************************************************)
\* The Wobbly handles whose weak handle still exists.
Undropped == {h \in Handles : hs[h] \in {"out", "in", "won", "fields"}}

C13_WeakCountAccounting ==
  last.op = "weak_count" =>
    /\ last.ret >= 1
    /\ last.ret = Cardinality(Undropped) + weaks

(***************************************************************************)
(* C14. Per-group state machine.  The flag of a group is true when new     *)
(* creates the group; it changes only from true to false, only in a drop   *)
(* of a member (rc: drop; sync: the compare_exchange), and once false it   *)
(* is never true again, so it changes at most once.  A clone of a member   *)
(* of a released group leaves the flag false.  A drop that finds the flag  *)
(* false makes no decrement: it leaves the strong count as it is.          *)
(***************************************************************************)
C14_GroupStateMachine ==
  /\ [](\A g \in Groups : (flag[g] => g \in Created /\ decs[g] = 0) /\ decs[g] <= 1)
  /\ [][
          /\ \A g \in Groups :
               /\ (last'.op = "new" /\ last'.ret = g) => g \notin Created /\ flag'[g]
               /\ (g \in Created /\ ~flag[g]) => ~flag'[g]
               /\ (flag[g] /\ ~flag'[g]) =>
                    /\ last'.op \in {"drop", "drop_cas"}
                    /\ grp[last'.h] = g /\ last'.ret = 1
          /\ last'.op = "clone" => flag' = flag /\ strong' = strong
          /\ (last'.op = "drop" /\ ~flag[grp[last'.h]]) =>
               /\ last'.ret = 0 /\ hs'[last'.h] = "dropped"
               /\ UNCHANGED <<strong, value, flag, decs, ub>>
          /\ (last'.op = "drop_cas" /\ ~flag[grp[last'.h]]) =>
               /\ last'.ret = 0 /\ hs'[last'.h] = "fields"
               /\ UNCHANGED <<strong, weak, value, flag, decs, ub>>
          /\ last'.op = "drop_fields" => UNCHANGED <<strong, value, flag, decs, ub>>
       ]_vars

\* A member of a released group has just been dropped while other members
\* of the group and a strong handle remain: the flag stayed false and the
\* strong count was left alone.
C14_Witness ==
  /\ last.op \in {"drop", "drop_cas"} /\ last.ret = 0
  /\ ~flag[grp[last.h]] /\ decs[grp[last.h]] = 1
  /\ \E m \in Members(grp[last.h]) : hs[m] = "out"
  /\ strong = 1 /\ rcs = 1

(***************************************************************************)
(* C15. sync::Wobbly: the transition of the flag to false and the          *)
(* decrement of the strong count are one indivisible step as seen by the   *)
(* group: no other thread observes the flag already false while the        *)
(* group's unit is not yet subtracted.  Stated on what the other threads   *)
(* observe: a compare_exchange that fails (it saw the flag false) finds    *)
(* the group's decrement made; strong_count returns the strong handles     *)
(* plus the groups whose flag is true; an upgrade succeeds only if a       *)
(* strong handle or a group with a true flag holds the pointee.            *)
(***************************************************************************)
Armed == {g \in Created : flag[g]}

C15_Indivisible ==
  variant = "sync" =>
    /\ (last.op = "drop_cas" /\ last.ret = 0) => decs[grp[last.h]] = 1
    /\ last.op = "strong_count" => last.ret = rcs + Cardinality(Armed)
    /\ (last.op = "upgrade" /\ last.ret = 1) => (rcs - 1) + Cardinality(Armed) >= 1

(***************************************************************************)
(* C15, as amended.  The compare_exchange is atomic and gives exactly one  *)
(* member of a group the permission to decrement; its decrement is a       *)
(* separate, later step.  While the flag of a group is false, either the   *)
(* decrement is made and no member is between the two steps, or it is not  *)
(* made and exactly one member is between them; the strong count is the    *)
(* strong handles plus the groups whose decrement is not made, so between  *)
(* the two steps strong_count and upgrade of another thread still see the  *)
(* unit.                                                                   *)
(***************************************************************************)
Unreleased == {g \in Created : decs[g] = 0}

C15_PermissionThenDecrement ==
  /\ [](\A g \in Created :
          /\ flag[g] => decs[g] = 0 /\ Pending(g) = {}
          /\ ~flag[g] =>
               \/ decs[g] = 1 /\ Pending(g) = {}
               \/ decs[g] = 0 /\ Cardinality(Pending(g)) = 1)
  /\ [](strong = rcs + Cardinality(Unreleased))
  /\ [][
          /\ last'.op = "drop_cas" =>
               /\ strong' = strong /\ decs' = decs
               /\ last'.ret = 1 <=> flag[grp[last'.h]]
               /\ ~flag'[grp[last'.h]]
          /\ last'.op = "drop_dec" =>
               /\ ~flag[grp[last'.h]] /\ decs[grp[last'.h]] = 0
               /\ strong' = strong - 1 /\ decs'[grp[last'.h]] = 1
               /\ flag' = flag
          /\ last'.op = "strong_count" => last'.ret = rcs + Cardinality(Unreleased)
          /\ (last'.op = "upgrade" /\ last'.h # 0) =>
               (last'.ret = 1 <=> rcs + Cardinality(Unreleased) >= 1)
       ]_vars

\* Inside the window: a member of the group has cleared the flag and not yet
\* decremented, and another member's strong_count has just returned a count
\* that still contains the group's unit.
C15_Witness ==
  /\ last.op = "strong_count" /\ last.ret = 1
  /\ rcs = 0
  /\ ~flag[grp[last.h]]
  /\ \E w \in Members(grp[last.h]) \ {last.h} : hs[w] = "won"

(***************************************************************************)
(* C16. The precondition of the detached decrement holds by construction.  *)
(* Whenever a drop calls decrement_strong_count, the group has made no     *)
(* decrement yet and its leaked unit is still counted: the strong count is *)
(* at least the strong handles plus 1 before the call and one less after   *)
(* it, so it never underflows.  The control block exists at the call and   *)
(* after it: the dropping handle's own weak unit is counted before and     *)
(* after the decrement and is released by a later step (sync) or at the    *)
(* end of the call (rc), and every handle not yet dropped holds one weak   *)
(* unit, so the block is not freed while a Wobbly handle is alive.         *)
(***************************************************************************)
C16_DecrementPrecondition ==
  /\ [](~ub /\ strong >= 0 /\ weak >= Cardinality(Undropped))
  /\ [][
          /\ (last'.op = "drop" /\ last'.ret = 1) =>
               /\ flag[grp[last'.h]] /\ decs[grp[last'.h]] = 0
               /\ strong >= rcs + 1 /\ strong' = strong - 1
               /\ weak >= 1 /\ last'.h \in Undropped
          /\ last'.op = "drop_dec" =>
               /\ hs[last'.h] = "won" /\ decs[grp[last'.h]] = 0
               /\ strong >= rcs + 1 /\ strong' = strong - 1
               /\ weak >= 1 /\ weak' = weak
               /\ last'.h \in Undropped /\ hs'[last'.h] = "fields"
          /\ last'.op = "drop_fields" =>
               /\ hs[last'.h] = "fields" /\ hs'[last'.h] = "dropped"
               /\ weak' = weak - 1 /\ strong' = strong
          /\ \A g \in Groups : decs'[g] # decs[g] =>
               /\ decs'[g] = decs[g] + 1
               /\ last'.op \in {"drop", "drop_dec"} /\ grp[last'.h] = g
       ]_vars

\* sync: the decrement of a drop has just brought the strong count to 0 and
\* destroyed the pointee; the handle's own weak unit is still counted, so
\* the control block is still there.
C16_Witness ==
  /\ last.op = "drop_dec"
  /\ strong = 0 /\ value = "dropped" /\ ~ub
  /\ hs[last.h] = "fields" /\ weak = 1

(***************************************************************************)
(* C17. Every drop terminates without waiting for another thread.  rc: the *)
(* drop is one call that reads and clears the flag once and returns with   *)
(* the handle dropped.  sync: a drop makes one compare_exchange, from      *)
(* which it goes on to the decrement (success) or straight to its return   *)
(* (failure), and never makes a second one; each later step of a started   *)
(* drop is enabled whatever the other threads are doing; and under fair    *)
(* scheduling every started drop ends with the handle dropped, as does the *)
(* drop of every handle stored in a destroyed pointee.                     *)
(***************************************************************************)
C17_DropTerminates ==
  /\ [](\A h \in Handles :
          /\ hs[h] = "won" => ENABLED DropSyncDec(h)
          /\ hs[h] = "fields" => ENABLED DropSyncFields(h)
          /\ (variant = "sync" /\ hs[h] = "in" /\ value = "dropped")
               => ENABLED DropSyncCas(h))
  /\ [][
          /\ last'.op = "drop" => hs[last'.h] = "out" /\ hs'[last'.h] = "dropped"
          /\ last'.op = "drop_cas" =>
               /\ hs[last'.h] \in {"out", "in"}
               /\ hs'[last'.h] = IF last'.ret = 1 THEN "won" ELSE "fields"
          /\ \A h \in Handles :
               /\ DropStarted(h) => DropStarted(h)'
               /\ hs[h] = "fields" => hs'[h] \in {"fields", "dropped"}
               /\ hs[h] = "dropped" => hs'[h] = "dropped"
       ]_vars
  /\ \A h \in Handles : hs[h] \in {"won", "fields"} ~> hs[h] = "dropped"
  /\ \A h \in Handles : (hs[h] = "in" /\ value = "dropped") ~> hs[h] = "dropped"

\* sync: a member that lost the race has completed its drop while the member
\* that won is still between its compare_exchange and its decrement.
C17_Witness ==
  \E h \in Handles :
    /\ hs[h] = "dropped"
    /\ \E w \in Members(grp[h]) \ {h} : hs[w] = "won"

(***************************************************************************)
(* C18. Deallocation is permanent.  The pointee is destroyed exactly when  *)
(* the strong count is 0; once the strong count is 0 it is 0 in every      *)
(* later state and the pointee stays destroyed; every upgrade made then,   *)
(* by a remaining member, by a clone made afterwards or by a Weak          *)
(* obtained from downgrade, returns None; clone, downgrade and drop still  *)
(* work and none of them changes the strong count.                         *)
(***************************************************************************)
C18_DeallocationPermanent ==
  /\ [](strong = 0 <=> value = "dropped")
  /\ [][strong = 0 =>
          /\ strong' = 0 /\ value' = "dropped" /\ rcs' = 0
          /\ last'.op \in {"upgrade", "weak_upgrade"} => last'.ret = 0
          /\ last'.op = "strong_count" => last'.ret = 0
          /\ last'.op \in {"clone", "downgrade", "drop", "drop_cas", "drop_fields",
                            "drop_weak", "upgrade", "weak_upgrade",
                            "strong_count", "weak_count"}
       ]_vars

\* After the deallocation a clone was made of a remaining member and a Weak
\* was obtained by downgrade; an upgrade on a live handle has just returned
\* None.
C18_Witness ==
  /\ last.op = "upgrade" /\ last.ret = 0
  /\ hs[last.h] = "out"
  /\ strong = 0 /\ value = "dropped"
  /\ weaks = 1
  /\ Cardinality({h \in Handles : hs[h] = "out"}) >= 2

(***************************************************************************)
(* C19. On the histories of one thread rc::Wobbly and sync::Wobbly are     *)
(* observationally equivalent.  The two start in the same state; new,      *)
(* clone, downgrade, upgrade, strong_count and weak_count are the same     *)
(* code in both; and in every state either variant reaches, the drop of a  *)
(* handle and the drop of a strong handle give the same result (flag found *)
(* true or false) and the same next state (strong count, weak count,       *)
(* flags, pointee, handles dropped) whether done by rc (Cell::replace,     *)
(* Rc) or by sync (compare_exchange, Arc).  So the same sequence of calls  *)
(* passes through the same counts and flags and returns the same results.  *)
(***************************************************************************)
C19_VariantsEquivalent ==
  /\ [](\A h \in Handles : hs[h] = "out" =>
          /\ RcDrop(St, h) = SyncDropSeq(St, h)
          /\ CellReplaceFalse(St, grp[h]).was = CompareExchange(St, grp[h]).ok
          /\ CellReplaceFalse(St, grp[h]).s = CompareExchange(St, grp[h]).s)
  /\ [](rcs > 0 => RcDecrementStrong(St) = SyncDecrementStrongSeq(St))
  /\ [][
          /\ last'.op = "drop" =>
               /\ St' = RcDrop(St, last'.h)
               /\ St' = SyncDropSeq(St, last'.h)
               /\ last'.ret = (IF flag[grp[last'.h]] THEN 1 ELSE 0)
          /\ last'.op = "drop_strong" =>
               /\ St' = RcDecrementStrong(St)
               /\ St' = SyncDecrementStrongSeq(St)
       ]_vars

\* sync, one thread: the drop of the outside member of a group has released
\* the last unit and, inside the same call, dropped a member stored in the
\* pointee, as the rc drop does.
C19_Witness ==
  /\ variant = "sync"
  /\ last.op = "drop" /\ last.ret = 1
  /\ strong = 0 /\ value = "dropped"
  /\ \E m \in Members(grp[last.h]) \ {last.h} : hs[m] = "dropped"
  /\ decs[grp[last.h]] = 1

====
